---- MODULE Spec2Model ----
(***************************************************************************)
(* A model of the exchange client in src/binance_api.rs: construction and  *)
(* the listen-key session, endpoint resolution, request signing and        *)
(* dispatch, the kline pagination loop and the websocket control frames.   *)
(*                                                                         *)
(* Text is a TLA+ string where the code only concatenates it, and a        *)
(* sequence of one-character strings where the code looks inside it        *)
(* (to_lowercase, split, pop).  A HashMap is a function from keys to       *)
(* values together with an iteration order, which the standard library     *)
(* leaves unspecified: every order of the keys is possible, and the order  *)
(* is the same for two iterations of an unmodified map.                    *)
(***************************************************************************)
EXTENDS Integers, Sequences, FiniteSets, TLC

VARIABLES
    pc,            \* "start" | "ready" | "panicked": the life of the process
    api_key,       \* BinanceAPI.api_key
    secret_key,    \* BinanceAPI.secret_key
    account_type,  \* BinanceAPI.account_type
    base_url,      \* BinanceAPI.base_url
    wss_url,       \* BinanceAPI.wss_url
    listen_key,    \* BinanceAPI.listen_key
    n_calls,       \* public operations called so far
    n_dispatch,    \* HTTP requests handed to the transport so far
    last_op,       \* the public operation called last
    last_result,   \* what it returned to its caller
    last_request,  \* the HTTP request handed to the transport last
    last_response, \* what the transport answered to it
    stream_url,    \* the URL generate_websocket connected to last
    hk_pc,         \* history_klines: "idle" | "call" | "done" | "err" | "panicked"
    hk_args,       \* history_klines: its arguments
    param_map,     \* history_klines: the local param_map
    kline_data,    \* history_klines: the local accumulator
    hk_calls,      \* history_klines: the parameters of each request it sent
    hk_pages,      \* history_klines: the pages those requests returned
    hk_result,     \* history_klines: the returned value
    ws_out,        \* the text frames written to the websocket
    ws_last        \* the subscribe/unsubscribe call made last

client_vars == <<api_key, secret_key, account_type, base_url, wss_url, listen_key>>
call_vars ==
    <<pc, n_calls, n_dispatch, last_op, last_result, last_request, last_response, stream_url>>
hk_vars == <<hk_pc, hk_args, param_map, kline_data, hk_calls, hk_pages, hk_result>>
ws_vars == <<ws_out, ws_last>>
vars == <<client_vars, call_vars, hk_vars, ws_vars>>

---------------------------------------------------------------------------
(* Bounds of the model. *)

\* Public operations called on one client.
MaxCalls == 2
\* Pages the exchange returns before the empty one.
MaxPages == 2
\* Records in one page.
MaxPageLen == 2
\* Symbols in one subscribe/unsubscribe call.
MaxSymbols == 2
\* Frames written to one websocket.
MaxFrames == 1

---------------------------------------------------------------------------
(* Text. *)

PANIC == "<panic>"

Digit(d) ==
    CASE d = 0 -> "0" [] d = 1 -> "1" [] d = 2 -> "2" [] d = 3 -> "3"
      [] d = 4 -> "4" [] d = 5 -> "5" [] d = 6 -> "6" [] d = 7 -> "7"
      [] d = 8 -> "8" [] d = 9 -> "9"

\* i64::to_string of a non-negative integer.
RECURSIVE IntToStr(_)
IntToStr(n) == IF n < 10 THEN Digit(n) ELSE IntToStr(n \div 10) \o Digit(n % 10)

\* The String made of the characters of cs.
RECURSIVE Concat(_)
Concat(cs) == IF cs = <<>> THEN "" ELSE Head(cs) \o Concat(Tail(cs))

\* str::split on a one-character separator: the pieces between separators.
RECURSIVE SplitFrom(_, _, _)
SplitFrom(cs, sep, piece) ==
    IF cs = <<>> THEN <<piece>>
    ELSE IF Head(cs) = sep THEN <<piece>> \o SplitFrom(Tail(cs), sep, <<>>)
    ELSE SplitFrom(Tail(cs), sep, Append(piece, Head(cs)))

Split(cs, sep) == SplitFrom(cs, sep, <<>>)

\* String::pop: the text without its last character, if it has one.
Pop(cs) == IF cs = <<>> THEN cs ELSE SubSeq(cs, 1, Len(cs) - 1)

---------------------------------------------------------------------------
(* HashMap<String, String>. *)

EmptyMap == [k \in {} |-> ""]

Insert(m, k, v) == [x \in (DOMAIN m) \cup {k} |-> IF x = k THEN v ELSE m[x]]

\* The orders in which a map with the keys S may be iterated.
RECURSIVE IterOrders(_)
IterOrders(S) ==
    IF S = {} THEN {<<>>}
    ELSE LET x == CHOOSE k \in S : TRUE
             rest == IterOrders(S \ {x})
         IN  {SubSeq(o, 1, i - 1) \o <<x>> \o SubSeq(o, i, Len(o)) :
                  o \in rest, i \in 1..(Cardinality(S))}

\* The (key, value) pairs of m as an iteration in the order ord yields them.
Iterate(m, ord) == [i \in 1..Len(ord) |-> <<ord[i], m[ord[i]]>>]

---------------------------------------------------------------------------
(* serde_json::Value, as far as the client looks into it. *)

JsonNull == [type |-> "null", str |-> <<>>, obj |-> EmptyMap, arr |-> <<>>]
JsonString(cs) == [type |-> "string", str |-> cs, obj |-> EmptyMap, arr |-> <<>>]
JsonObject(o) == [type |-> "object", str |-> <<>>, obj |-> o, arr |-> <<>>]
JsonArray(a) == [type |-> "array", str |-> <<>>, obj |-> EmptyMap, arr |-> a]

\* value[field]: Null when value is no object or has no such field.
JsonIndex(v, field) ==
    IF v.type = "object" /\ field \in DOMAIN v.obj THEN v.obj[field] ELSE JsonNull

\* The characters serde_json writes for the characters cs of a string.
RECURSIVE JsonEscape(_)
JsonEscape(cs) ==
    IF cs = <<>> THEN <<>>
    ELSE (IF Head(cs) \in {"\"", "\\"} THEN <<"\\", Head(cs)>> ELSE <<Head(cs)>>)
         \o JsonEscape(Tail(cs))

\* Value::to_string of a string or of Null.
JsonToString(v) ==
    IF v.type = "string" THEN <<"\"">> \o JsonEscape(v.str) \o <<"\"">>
    ELSE <<"n", "u", "l", "l">>

---------------------------------------------------------------------------
(* What the environment supplies. *)

ApiKeys == {"", "api_key"}
SecretKeys == {"", "secret_key"}
AccountTypes == {"spot", "swap", "margin"}
\* Listen keys as the exchange issues them: non-empty, letters and digits.
ListenKeys == {<<"a", "B", "1">>, <<"x", "9">>}
\* Utc::now().timestamp_millis()
Clock == {1700000000, 1700000001}

TransportError == [kind |-> "transport_error", body |-> JsonNull]
NotJson == [kind |-> "not_json", body |-> JsonNull]
Json(v) == [kind |-> "json", body |-> v]
\* An error payload of the exchange: a JSON object with a code and a message.
ExchangeError ==
    JsonObject([k \in {"code", "msg"} |->
                   IF k = "code" THEN JsonString(<<"-", "1">>) ELSE JsonString(<<"e">>)])
ListenKeyBody(k) == JsonObject([f \in {"listenKey"} |-> JsonString(k)])

\* Responses to a listen-key request.
SessionResponses ==
    {TransportError, NotJson, Json(ExchangeError)} \cup {Json(ListenKeyBody(k)) : k \in ListenKeys}
\* Responses to the other requests of the account client.
PlainResponses == {TransportError, NotJson, Json(ExchangeError), Json(JsonObject(EmptyMap))}

NoRequest == [url |-> "", method |-> "", headers |-> EmptyMap, query |-> <<>>]
NoResponse == [kind |-> "none", body |-> JsonNull]

---------------------------------------------------------------------------
(* The client. *)

Self ==
    [api_key |-> api_key, secret_key |-> secret_key, account_type |-> account_type,
     base_url |-> base_url, wss_url |-> wss_url, listen_key |-> listen_key]

\* The (base_url, wss_url) BinanceAPI::new matches account_type to.
NewUrls(at) ==
    CASE at = "spot" -> <<"https://api.binance.com", "wss://stream.binance.com/ws">>
      [] at = "swap" -> <<"https://fapi.binance.com", "wss://fstream.binance.com/ws">>
      [] OTHER -> <<PANIC, PANIC>>

generate_exchange_url_SwapFirst(self, spot_swap_url) ==
    CASE self.account_type = "spot" -> self.base_url \o spot_swap_url[2]
      [] self.account_type = "swap" -> self.base_url \o spot_swap_url[1]
      [] OTHER -> PANIC

generate_exchange_url(self, spot_swap_url) ==
    CASE self.account_type = "spot" -> self.base_url \o spot_swap_url[1]
      [] self.account_type = "swap" -> self.base_url \o spot_swap_url[2]
      [] OTHER -> PANIC

\* hex::encode of the HMAC-SHA256 of msg under key: a term that keeps both.
HexHmacSha256(key, msg) == <<"hex", "HMAC-SHA256", key, msg>>

\* The text generate_signature builds from the pairs and then pops.
RECURSIVE QueryText(_)
QueryText(pairs) ==
    IF pairs = <<>> THEN <<>>
    ELSE <<Head(pairs)[1], "=", Head(pairs)[2], "&">> \o QueryText(Tail(pairs))

\* Signs the pairs in the reverse of the order in which they are sent.
generate_signature_OtherOrder(self, pm, ord) ==
    HexHmacSha256(self.secret_key,
                  Pop(QueryText(Iterate(pm, [i \in 1..Len(ord) |-> ord[Len(ord) + 1 - i]]))))

\* ord: the order in which param_map is iterated.
generate_signature(self, pm, ord) ==
    HexHmacSha256(self.secret_key, Pop(QueryText(Iterate(pm, ord))))

HttpMethods == {"GET", "POST", "PUT", "DELETE"}

\* The param_map send_request iterates: with the timestamp when signing.
Stamped(pm, signature, now) ==
    IF signature THEN Insert(pm, "timestamp", IntToStr(now)) ELSE pm

\* now: the clock; ord: the order in which param_map is iterated;
\* resp: what the transport answers.
send_request(self, url, method, pm, signature, now, ord, resp) ==
    LET headers == [h \in {"Content-Type", "X-MBX-APIKEY"} |->
                       IF h = "Content-Type" THEN "application/json" ELSE self.api_key]
        pm1 == Stamped(pm, signature, now)
        signature_map ==
            IF signature THEN <<<<"signature", generate_signature(self, pm1, ord)>>>>
            ELSE <<>>
        query == (IF DOMAIN pm1 = {} THEN <<>> ELSE Iterate(pm1, ord)) \o signature_map
        request == [url |-> url, method |-> method, headers |-> headers, query |-> query]
    IN  IF method \notin HttpMethods
        THEN [sent |-> FALSE, request |-> NoRequest, response |-> NoResponse,
              outcome |-> "panic", json |-> JsonNull, param_map |-> pm1]
        ELSE [sent |-> TRUE, request |-> request, response |-> resp,
              outcome |-> CASE resp.kind = "transport_error" -> "err"
                            [] resp.kind = "not_json" -> "panic"
                            [] OTHER -> "ok",
              json |-> IF resp.kind = "json" THEN resp.body ELSE JsonNull,
              param_map |-> pm1]

ListenKeyPaths == <<"/api/v3/userDataStream", "/fapi/v1/listenKey">>

ListenKeyMethod(method) ==
    CASE method = "generate" -> "POST"
      [] method = "delay" -> "PUT"
      [] method = "delete" -> "DELETE"
      [] OTHER -> PANIC

\* What listen_key_manager does and returns: text is the returned String.
listen_key_manager(self, method, resp) ==
    LET url == generate_exchange_url(self, ListenKeyPaths)
        method_request == ListenKeyMethod(method)
        pm == IF method \in {"delay", "delete"}
              THEN Insert(EmptyMap, "listenKey", self.listen_key)
              ELSE EmptyMap
        ord == CHOOSE o \in IterOrders(DOMAIN pm) : TRUE
        r == send_request(self, url, method_request, pm, FALSE, 0, ord, resp)
        pieces == Split(JsonToString(JsonIndex(r.json, "listenKey")), "\"")
    IN  IF url = PANIC \/ method_request = PANIC
        THEN [sent |-> FALSE, request |-> NoRequest, response |-> NoResponse,
              outcome |-> "panic", text |-> ""]
        ELSE IF r.outcome # "ok"
        THEN [sent |-> r.sent, request |-> r.request, response |-> r.response,
              outcome |-> r.outcome, text |-> ""]
        ELSE IF method = "generate"
        THEN IF Len(pieces) < 2
             THEN [sent |-> TRUE, request |-> r.request, response |-> r.response,
                   outcome |-> "panic", text |-> ""]
             ELSE [sent |-> TRUE, request |-> r.request, response |-> r.response,
                   outcome |-> "ok", text |-> Concat(pieces[2])]
        ELSE [sent |-> TRUE, request |-> r.request, response |-> r.response,
              outcome |-> "ok", text |-> ""]

---------------------------------------------------------------------------
(* The operations of one client, called one after the other by one task. *)

NoResult == [outcome |-> "none", sent |-> FALSE, text |-> "", json |-> JsonNull]

\* The bookkeeping of a finished call that made at most one request.
Finish(op, sent, request, response, outcome, text, json) ==
    /\ last_op' = op
    /\ n_dispatch' = IF sent THEN n_dispatch + 1 ELSE n_dispatch
    /\ last_request' = IF sent THEN request ELSE last_request
    /\ last_response' = IF sent THEN response ELSE last_response
    /\ last_result' = [outcome |-> outcome, sent |-> sent, text |-> text, json |-> json]
    /\ pc' = IF outcome = "panic" THEN "panicked" ELSE "ready"

InitClient ==
    /\ pc = "start"
    /\ api_key = "" /\ secret_key = "" /\ account_type = ""
    /\ base_url = "" /\ wss_url = "" /\ listen_key = ""
    /\ n_calls = 0 /\ n_dispatch = 0
    /\ last_op = "none" /\ last_result = NoResult
    /\ last_request = NoRequest /\ last_response = NoResponse
    /\ stream_url = ""

NoKlines == [kind |-> "none", records |-> <<>>]

InitKlinesIdle ==
    /\ hk_pc = "idle"
    /\ hk_args = [symbol |-> "", interval |-> "", start_time_utc |-> "", end_time_utc |-> ""]
    /\ param_map = EmptyMap
    /\ kline_data = <<>>
    /\ hk_calls = <<>>
    /\ hk_pages = <<>>
    /\ hk_result = <<>>

InitWsIdle ==
    /\ ws_out = <<>>
    /\ ws_last = [method |-> "none", symbols |-> <<>>, sub_type |-> "", outcome |-> "none"]

Init == InitClient /\ InitKlinesIdle /\ InitWsIdle

HasCredentials_EitherKey(ak, sk) == ~(ak = "" /\ sk = "")

\* Whether BinanceAPI::new asks for a listen key.
HasCredentials(ak, sk) == ~(ak = "" \/ sk = "")

\* BinanceAPI::new(ak, sk, at), the generate request answered by resp.
New(ak, sk, at, resp) ==
    /\ pc = "start"
    /\ IF NewUrls(at)[1] = PANIC
       THEN \* the match on the parameter account_type panics: no client exists
            /\ api_key' = ak /\ secret_key' = sk /\ account_type' = at
            /\ Finish("new", FALSE, NoRequest, NoResponse, "panic", "", JsonNull)
            /\ UNCHANGED <<base_url, wss_url, listen_key>>
       ELSE LET bn_api == [api_key |-> ak, secret_key |-> sk, account_type |-> at,
                           base_url |-> NewUrls(at)[1], wss_url |-> NewUrls(at)[2],
                           listen_key |-> ""]
                r == listen_key_manager(bn_api, "generate", resp)
            IN  /\ api_key' = ak /\ secret_key' = sk /\ account_type' = at
                /\ base_url' = bn_api.base_url /\ wss_url' = bn_api.wss_url
                /\ IF HasCredentials(ak, sk)
                   THEN /\ listen_key' = IF r.outcome = "ok" THEN r.text ELSE ""
                        \* unwrap(): an Err of listen_key_manager is a panic here
                        /\ Finish("new", r.sent, r.request, r.response,
                                  IF r.outcome = "ok" THEN "ok" ELSE "panic", "", JsonNull)
                   ELSE /\ listen_key' = ""
                        /\ Finish("new", FALSE, NoRequest, NoResponse, "ok", "", JsonNull)
    /\ UNCHANGED <<n_calls, stream_url>>

CanCall == pc = "ready" /\ n_calls < MaxCalls

\* listen_key_manager(method), called on the constructed client.
ListenKeyManager(method, resp) ==
    /\ CanCall
    /\ n_calls' = n_calls + 1
    /\ LET r == listen_key_manager(Self, method, resp)
       IN  Finish(method, r.sent, r.request, r.response, r.outcome, r.text, JsonNull)
    /\ UNCHANGED <<client_vars, stream_url>>

\* generate_websocket(type_ws); connected: whether connect() succeeds.
GenerateWebsocket(type_ws, connected) ==
    /\ CanCall
    /\ n_calls' = n_calls + 1
    /\ LET url == CASE type_ws = "account" -> (wss_url \o "/") \o listen_key
                    [] type_ws = "market" -> wss_url
                    [] OTHER -> PANIC
       IN  IF url = PANIC
           THEN /\ Finish("generate_websocket", FALSE, NoRequest, NoResponse, "panic", "", JsonNull)
                /\ UNCHANGED stream_url
           ELSE /\ stream_url' = url
                /\ Finish("generate_websocket", FALSE, NoRequest, NoResponse,
                          IF connected THEN "ok" ELSE "panic", "", JsonNull)
    /\ UNCHANGED client_vars

\* An operation of the account client that makes one request with the
\* parameters pm: op names it, url is its resolved URL.
AccountCall(op, url, method, pm, signature, now, ord, resp) ==
    /\ n_calls' = n_calls + 1
    /\ IF url = PANIC
       THEN Finish(op, FALSE, NoRequest, NoResponse, "panic", "", JsonNull)
       ELSE LET r == send_request(Self, url, method, pm, signature, now, ord, resp)
            IN  Finish(op, r.sent, r.request, r.response, r.outcome, "", r.json)
    /\ UNCHANGED <<client_vars, stream_url>>

GetExchangeInfo(resp) ==
    /\ CanCall
    /\ AccountCall("get_exchange_info",
                   generate_exchange_url(Self, <<"/api/v3/exchangeInfo", "/fapi/v1/exchangeInfo">>),
                   "GET", EmptyMap, FALSE, 0, <<>>, resp)

OnlySwap_NoAssert(self) == TRUE

\* Whether the assert! that opens get_position and get_balance passes.
OnlySwap(self) == self.account_type = "swap"

GetPosition(now, resp) ==
    /\ CanCall
    /\ IF OnlySwap(Self)
       THEN AccountCall("get_position",
                        generate_exchange_url(Self, <<"", "/fapi/v2/positionRisk">>),
                        "GET", EmptyMap, TRUE, now, <<"timestamp">>, resp)
       ELSE /\ n_calls' = n_calls + 1
            /\ Finish("get_position", FALSE, NoRequest, NoResponse, "panic", "", JsonNull)
            /\ UNCHANGED <<client_vars, stream_url>>

GetBalance(now, resp) ==
    /\ CanCall
    /\ IF OnlySwap(Self)
       THEN AccountCall("get_balance", base_url \o "/fapi/v2/balance",
                        "GET", EmptyMap, TRUE, now, <<"timestamp">>, resp)
       ELSE /\ n_calls' = n_calls + 1
            /\ Finish("get_balance", FALSE, NoRequest, NoResponse, "panic", "", JsonNull)
            /\ UNCHANGED <<client_vars, stream_url>>

ListenKeyMethods == {"generate", "delay", "delete", "renew"}
WebsocketTypes == {"account", "market", "trade"}

Next ==
    \/ \E ak \in ApiKeys, sk \in SecretKeys, at \in AccountTypes, resp \in SessionResponses :
          New(ak, sk, at, resp) /\ UNCHANGED <<hk_vars, ws_vars>>
    \/ \E method \in ListenKeyMethods, resp \in SessionResponses :
          ListenKeyManager(method, resp) /\ UNCHANGED <<hk_vars, ws_vars>>
    \/ \E type_ws \in WebsocketTypes, connected \in BOOLEAN :
          GenerateWebsocket(type_ws, connected) /\ UNCHANGED <<hk_vars, ws_vars>>
    \/ \E resp \in PlainResponses :
          GetExchangeInfo(resp) /\ UNCHANGED <<hk_vars, ws_vars>>
    \/ \E now \in Clock, resp \in PlainResponses :
          GetPosition(now, resp) /\ UNCHANGED <<hk_vars, ws_vars>>
    \/ \E now \in Clock, resp \in PlainResponses :
          GetBalance(now, resp) /\ UNCHANGED <<hk_vars, ws_vars>>

Spec == Init /\ [][Next]_vars

---------------------------------------------------------------------------
(* The signed and unsigned operations of the account client, one call on a *)
(* freshly constructed client.                                             *)

FirstCall == pc = "ready" /\ n_calls = 0

\* The param_map new_order builds.
NewOrderParams(symbol, side, trade_type, quantity, price, time_inforce) ==
    LET base == Insert(Insert(Insert(Insert(EmptyMap, "symbol", symbol), "side", side),
                              "type", trade_type), "quantity", quantity)
    IN  IF trade_type = "LIMIT"
        THEN Insert(Insert(base, "price", price), "timeInForce", time_inforce)
        ELSE base

NewOrder(symbol, side, trade_type, quantity, price, time_inforce, now, ord, resp) ==
    /\ FirstCall
    /\ AccountCall("new_order",
                   generate_exchange_url(Self, <<"/api/v3/order", "/fapi/v1/order">>), "POST",
                   NewOrderParams(symbol, side, trade_type, quantity, price, time_inforce),
                   TRUE, now, ord, resp)

\* The param_map cancel_order builds.
CancelOrderParams(symbol, order_id, all) ==
    IF all THEN Insert(EmptyMap, "symbol", symbol)
    ELSE Insert(Insert(EmptyMap, "symbol", symbol), "orderId", order_id)

CancelOrder(symbol, order_id, all, now, ord, resp) ==
    /\ FirstCall
    /\ AccountCall("cancel_order",
                   IF all
                   THEN generate_exchange_url(Self, <<"/api/v3/openOrders", "/fapi/v1/allOpenOrders">>)
                   ELSE generate_exchange_url(Self, <<"/api/v3/order", "/fapi/v1/order">>),
                   "DELETE", CancelOrderParams(symbol, order_id, all), TRUE, now, ord, resp)

PullAccount(now, resp) ==
    /\ FirstCall
    /\ AccountCall("pull_account",
                   generate_exchange_url(Self, <<"/api/v3/account", "/fapi/v2/account">>),
                   "GET", EmptyMap, TRUE, now, <<"timestamp">>, resp)

\* The param_map get_price and get_ticker build.
SymbolParams(symbol) ==
    IF symbol = "" THEN EmptyMap ELSE Insert(EmptyMap, "symbol", symbol)

GetPrice(symbol, ord, resp) ==
    /\ FirstCall
    /\ AccountCall("get_price",
                   generate_exchange_url(Self, <<"/api/v3/ticker/price", "/fapi/v1/ticker/price">>),
                   "GET", SymbolParams(symbol), FALSE, 0, ord, resp)

GetTicker(symbol, ord, resp) ==
    /\ FirstCall
    /\ AccountCall("get_ticker",
                   generate_exchange_url(Self, <<"/api/v3/ticker/24hr", "/fapi/v1/ticker/24hr">>),
                   "GET", SymbolParams(symbol), FALSE, 0, ord, resp)

FirstGetPosition(now, resp) == FirstCall /\ GetPosition(now, resp)

FirstGetBalance(now, resp) == FirstCall /\ GetBalance(now, resp)

TradeTypes == {"LIMIT", "MARKET"}
\* Responses to new_order.
OrderResponses == {TransportError, Json(ExchangeError)}

NextSigned ==
    \/ \E ak \in ApiKeys, sk \in SecretKeys, at \in AccountTypes, resp \in SessionResponses :
          New(ak, sk, at, resp) /\ UNCHANGED <<hk_vars, ws_vars>>
    \/ FirstCall /\ \E trade_type \in TradeTypes :
          \E ord \in IterOrders(DOMAIN Stamped(
                        NewOrderParams("BTCUSDT", "BUY", trade_type, "0.1", "50000", "GTC"),
                        TRUE, 0)) :
           \E now \in Clock, resp \in OrderResponses :
             /\ NewOrder("BTCUSDT", "BUY", trade_type, "0.1", "50000", "GTC", now, ord, resp)
             /\ UNCHANGED <<hk_vars, ws_vars>>
    \/ FirstCall /\ \E all \in BOOLEAN, now \in Clock, resp \in PlainResponses :
          \E ord \in IterOrders(DOMAIN Stamped(CancelOrderParams("BTCUSDT", "0", all), TRUE, now)) :
             /\ CancelOrder("BTCUSDT", "0", all, now, ord, resp)
             /\ UNCHANGED <<hk_vars, ws_vars>>
    \/ \E now \in Clock, resp \in PlainResponses :
          PullAccount(now, resp) /\ UNCHANGED <<hk_vars, ws_vars>>
    \/ \E symbol \in {"", "BTCUSDT"}, resp \in PlainResponses :
          \E ord \in IterOrders(DOMAIN SymbolParams(symbol)) :
             GetPrice(symbol, ord, resp) /\ UNCHANGED <<hk_vars, ws_vars>>
    \/ \E symbol \in {"", "BTCUSDT"}, resp \in PlainResponses :
          \E ord \in IterOrders(DOMAIN SymbolParams(symbol)) :
             GetTicker(symbol, ord, resp) /\ UNCHANGED <<hk_vars, ws_vars>>
    \/ \E now \in Clock, resp \in PlainResponses :
          FirstGetPosition(now, resp) /\ UNCHANGED <<hk_vars, ws_vars>>
    \/ \E now \in Clock, resp \in PlainResponses :
          FirstGetBalance(now, resp) /\ UNCHANGED <<hk_vars, ws_vars>>

SpecSigned == Init /\ [][NextSigned]_vars

---------------------------------------------------------------------------
(* history_klines: one call on a constructed client, one step of the model *)
(* for each request the loop awaits.                                       *)

\* NaiveDateTime::parse_from_str(s, "%Y-%m-%d %H:%M:%S") followed by
\* and_utc().timestamp(), on the texts the model passes: -1 stands for the
\* parse error that unwrap() turns into a panic.
Str2Timestamp(utc_str) ==
    CASE utc_str = "1970-01-01 00:00:00" -> 0
      [] utc_str = "1970-01-01 00:01:00" -> 60
      [] utc_str = "1970-01-01 00:02:00" -> 120
      [] OTHER -> -1

StartTimes == {"1970-01-01 00:00:00", "1970-01-01 00:01:00", "1970-01-01"}
EndTimes == {"", "1970-01-01 00:02:00"}

\* Kline records: the open time in milliseconds first, the other fields after it.
Klines == {<<60000, "ohlcv-a">>, <<120000, "ohlcv-b">>}
\* The pages the exchange may return.
Pages == UNION {[1..n -> Klines] : n \in 0..MaxPageLen}

KlineResponses ==
    {TransportError, NotJson, Json(ExchangeError)} \cup {Json(JsonArray(p)) : p \in Pages}

KlinePaths == <<"/api/v3/klines", "/fapi/v1/klines">>

\* The param_map history_klines builds before its loop.
KlineParams(symbol, interval, start_time_utc, end_time_utc) ==
    LET base == Insert(Insert(Insert(EmptyMap, "symbol", symbol), "interval", interval),
                       "startTime", IntToStr(Str2Timestamp(start_time_utc) * 1000))
    IN  IF end_time_utc # ""
        THEN Insert(base, "endTime", IntToStr(Str2Timestamp(end_time_utc) * 1000))
        ELSE base

HistoryKlinesStart(symbol, interval, start_time_utc, end_time_utc) ==
    /\ pc = "ready" /\ hk_pc = "idle"
    /\ hk_args' = [symbol |-> symbol, interval |-> interval,
                   start_time_utc |-> start_time_utc, end_time_utc |-> end_time_utc]
    /\ IF \/ Str2Timestamp(start_time_utc) < 0
          \/ (end_time_utc # "" /\ Str2Timestamp(end_time_utc) < 0)
       THEN /\ hk_pc' = "panicked" /\ pc' = "panicked"
            /\ UNCHANGED param_map
       ELSE /\ hk_pc' = "call" /\ pc' = pc
            /\ param_map' = KlineParams(symbol, interval, start_time_utc, end_time_utc)
    /\ last_op' = "history_klines"
    /\ UNCHANGED <<client_vars, n_calls, n_dispatch, last_result, last_request, last_response,
                   stream_url, kline_data, hk_calls, hk_pages, hk_result>>

NextStartTime_SamePoint(kdatai) == IntToStr(kdatai[Len(kdatai)][1])

\* The startTime of the next request, from the page just received.
NextStartTime(kdatai) == IntToStr(kdatai[Len(kdatai)][1] + 1)

\* Takes a failed request for the end of the data.
AfterResponse_Swallow(resp) ==
    CASE resp.kind = "transport_error" -> "break"
      [] resp.kind = "not_json" -> "panicked"
      [] resp.body.type # "array" -> "panicked"
      [] resp.body.arr = <<>> -> "break"
      [] OTHER -> "call"

\* Where the loop goes with the answer to its request.
AfterResponse(resp) ==
    CASE resp.kind = "transport_error" -> "err"
      [] resp.kind = "not_json" -> "panicked"
      [] resp.body.type # "array" -> "panicked"
      [] resp.body.arr = <<>> -> "break"
      [] OTHER -> "call"

DropLast_KeepAll(data) == data

\* kline_data[..kline_data.len() - 1], for a kline_data that is not empty.
DropLast(data) == SubSeq(data, 1, Len(data) - 1)

\* One turn of the loop: the request, its answer resp, and what follows up
\* to the next request or the return.  The request is unsigned; hk_calls
\* keeps its parameters as a map, without the order of the query fields.
HistoryKlinesRequest(resp) ==
    /\ pc = "ready" /\ hk_pc = "call"
    /\ (resp.kind = "json" /\ resp.body.type = "array" /\ resp.body.arr # <<>>)
          => Len(hk_pages) < MaxPages
    /\ LET ord == CHOOSE o \in IterOrders(DOMAIN param_map) : TRUE
           r == send_request(Self, generate_exchange_url(Self, KlinePaths), "GET",
                             param_map, FALSE, 0, ord, resp)
           go == AfterResponse(resp)
           kdatai == resp.body.arr
       IN  /\ hk_calls' = Append(hk_calls, [url |-> r.request.url, method |-> r.request.method,
                                           params |-> r.param_map])
           /\ n_dispatch' = n_dispatch + 1
           /\ last_request' = r.request
           /\ last_response' = resp
           /\ hk_pages' = IF go \in {"break", "call"} /\ resp.kind = "json"
                          THEN Append(hk_pages, kdatai) ELSE hk_pages
           /\ CASE go = "err" ->
                     /\ hk_pc' = "err" /\ pc' = pc
                     /\ hk_result' = [kind |-> "err", records |-> <<>>]
                     /\ UNCHANGED <<param_map, kline_data>>
                [] go = "panicked" ->
                     /\ hk_pc' = "panicked" /\ pc' = "panicked"
                     /\ UNCHANGED <<param_map, kline_data, hk_result>>
                [] go = "call" ->
                     /\ hk_pc' = "call" /\ pc' = pc
                     /\ param_map' = Insert(param_map, "startTime", NextStartTime(kdatai))
                     /\ kline_data' = kline_data \o kdatai
                     /\ UNCHANGED hk_result
                [] go = "break" ->
                     \* kline_data.len() - 1 on an empty Vec: an overflow panic in
                     \* a debug build, a slice end of usize::MAX and so an
                     \* out-of-range panic in a release build
                     IF kline_data = <<>>
                     THEN /\ hk_pc' = "panicked" /\ pc' = "panicked"
                          /\ UNCHANGED <<param_map, kline_data, hk_result>>
                     ELSE /\ hk_pc' = "done" /\ pc' = pc
                          /\ hk_result' = [kind |-> "ok", records |-> DropLast(kline_data)]
                          /\ UNCHANGED <<param_map, kline_data>>
    /\ UNCHANGED <<client_vars, n_calls, last_op, last_result, stream_url, hk_args>>

NextKlines ==
    \/ \E at \in AccountTypes :
          New("", "", at, TransportError) /\ UNCHANGED <<hk_vars, ws_vars>>
    \/ \E start_time_utc \in StartTimes, end_time_utc \in EndTimes :
          /\ HistoryKlinesStart("BTCUSDT", "1h", start_time_utc, end_time_utc)
          /\ UNCHANGED ws_vars
    \/ \E resp \in KlineResponses :
          HistoryKlinesRequest(resp) /\ UNCHANGED ws_vars

SpecKlines == Init /\ [][NextKlines]_vars

---------------------------------------------------------------------------
(* The websocket control frames. *)

UpperCase == <<"A", "B", "C", "D", "E", "F", "G", "H", "I", "J", "K", "L", "M",
               "N", "O", "P", "Q", "R", "S", "T", "U", "V", "W", "X", "Y", "Z">>
LowerCase == <<"a", "b", "c", "d", "e", "f", "g", "h", "i", "j", "k", "l", "m",
               "n", "o", "p", "q", "r", "s", "t", "u", "v", "w", "x", "y", "z">>

ToLowerChar_Keep(c) == c

\* char::to_lowercase on ASCII.
ToLowerChar(c) ==
    IF \E i \in 1..Len(UpperCase) : UpperCase[i] = c
    THEN LowerCase[CHOOSE i \in 1..Len(UpperCase) : UpperCase[i] = c]
    ELSE c

\* str::to_lowercase, as a String.
RECURSIVE ToLowercase(_)
ToLowercase(cs) ==
    IF cs = <<>> THEN "" ELSE ToLowerChar(Head(cs)) \o ToLowercase(Tail(cs))

\* [String]::join(sep)
RECURSIVE Join(_, _)
Join(texts, sep) ==
    IF texts = <<>> THEN ""
    ELSE IF Len(texts) = 1 THEN texts[1]
    ELSE (texts[1] \o sep) \o Join(Tail(texts), sep)

\* The "<symbol>@<sub_type>" entries, quoted and joined by commas.
Subscribes(symbols, sub_type) ==
    Join([i \in 1..Len(symbols) |->
              (("\"" \o ToLowercase(symbols[i])) \o "@") \o (sub_type \o "\"")], ",")

SubscribeId == 1
UnsubscribeId == 312

SubscribeText(symbols, sub_type) ==
    (("{\"method\": \"SUBSCRIBE\", \"params\": [" \o Subscribes(symbols, sub_type))
        \o "], \"id\": ") \o (IntToStr(SubscribeId) \o "}")

UnsubscribeText(symbols, sub_type) ==
    (("{\"method\": \"UNSUBSCRIBE\", \"params\": [" \o Subscribes(symbols, sub_type))
        \o "], \"id\": ") \o (IntToStr(UnsubscribeId) \o "}")

\* A websocket is connected and may take one more frame.
CanWrite ==
    /\ pc = "ready" /\ stream_url # "" /\ last_result.outcome = "ok"
    /\ Len(ws_out) < MaxFrames

\* ws.write_message(Message::Text(text)): the frames of the websocket after
\* it; written: whether the write succeeds.
WriteMessage(out, text, written) ==
    IF written THEN Append(out, [type |-> "text", data |-> text]) ELSE out

SubscribeWebsocket(symbols, sub_type, written) ==
    /\ CanWrite
    /\ ws_out' = WriteMessage(ws_out, SubscribeText(symbols, sub_type), written)
    /\ ws_last' = [method |-> "subscribe", symbols |-> symbols, sub_type |-> sub_type,
                   outcome |-> IF written THEN "ok" ELSE "err"]
    /\ UNCHANGED <<client_vars, call_vars, hk_vars>>

UnsubscribeWebsocket(symbols, sub_type, written) ==
    /\ CanWrite
    /\ ws_out' = WriteMessage(ws_out, UnsubscribeText(symbols, sub_type), written)
    /\ ws_last' = [method |-> "unsubscribe", symbols |-> symbols, sub_type |-> sub_type,
                   outcome |-> IF written THEN "ok" ELSE "err"]
    /\ UNCHANGED <<client_vars, call_vars, hk_vars>>

BTCUSDT == <<"B", "T", "C", "U", "S", "D", "T">>
ethusdt == <<"e", "t", "h", "u", "s", "d", "t">>
SymbolLists == UNION {[1..n -> {BTCUSDT, ethusdt}] : n \in 0..MaxSymbols}
SubTypes == {"aggTrade", "kline_1m"}

NextWs ==
    \/ \E at \in {"spot", "swap"} :
          New("", "", at, TransportError) /\ UNCHANGED <<hk_vars, ws_vars>>
    \/ \E connected \in BOOLEAN :
          /\ stream_url = ""
          /\ GenerateWebsocket("market", connected)
          /\ UNCHANGED <<hk_vars, ws_vars>>
    \/ \E symbols \in SymbolLists, sub_type \in SubTypes, written \in BOOLEAN :
          SubscribeWebsocket(symbols, sub_type, written)
    \/ \E symbols \in SymbolLists, sub_type \in SubTypes, written \in BOOLEAN :
          UnsubscribeWebsocket(symbols, sub_type, written)

SpecWs == Init /\ [][NextWs]_vars

---------------------------------------------------------------------------
(* Properties. *)

SpotBase == "https://api.binance.com"
SwapBase == "https://fapi.binance.com"

\* Whether the request carries a signature: a timestamp among its query
\* fields and the signature as the last of them.
IsSigned(req) ==
    /\ Len(req.query) >= 2
    /\ req.query[Len(req.query)][1] = "signature"
    /\ \E i \in 1..(Len(req.query) - 1) : req.query[i][1] = "timestamp"

\* C2: a client constructed with both credentials non-empty has made exactly
\* one request, the POST that generates a listen key, and holds the key of
\* the answer; a client constructed with an empty credential has made no
\* request and holds no key.
C2_SessionBootstrap ==
    (last_op = "new" /\ account_type \in {"spot", "swap"}) =>
        IF api_key # "" /\ secret_key # ""
        THEN /\ n_dispatch = 1
             /\ last_request.method = "POST"
             /\ last_request.url =
                    IF account_type = "spot" THEN SpotBase \o "/api/v3/userDataStream"
                    ELSE SwapBase \o "/fapi/v1/listenKey"
             /\ last_request.query = <<>>
             /\ pc = "ready" =>
                    /\ last_response.kind = "json"
                    /\ "listenKey" \in DOMAIN last_response.body.obj
                    /\ listen_key # ""
                    /\ listen_key = Concat(last_response.body.obj["listenKey"].str)
        ELSE /\ n_dispatch = 0
             /\ last_request = NoRequest
             /\ listen_key = ""
             /\ pc = "ready"

C2_Witness ==
    /\ last_op = "new" /\ pc = "ready"
    /\ api_key = "api_key" /\ secret_key = "secret_key"
    /\ n_dispatch = 1
    /\ listen_key = "aB1"

\* C5: after a delete (revoke) that succeeded, the client holds no listen key.
C5_RevokeClearsKey ==
    (last_op = "delete" /\ last_result.outcome = "ok") => listen_key = ""

\* The pages received, one after the other.
RECURSIVE Flatten(_)
Flatten(pages) == IF pages = <<>> THEN <<>> ELSE Head(pages) \o Flatten(Tail(pages))

\* history_klines has received an empty page.
GotEmptyPage == hk_pages # <<>> /\ hk_pages[Len(hk_pages)] = <<>>

\* C1: when the first page is empty, history_klines returns Ok with no records.
C1_EmptyFirstPage ==
    (Len(hk_pages) = 1 /\ hk_pages[1] = <<>>) =>
        (hk_pc = "done" /\ hk_result = [kind |-> "ok", records |-> <<>>])

\* C3: history_klines makes one request for each page it receives and none
\* after the empty page, which is the only page that ends it; the request
\* after a page starts at the open time of the last record of that page
\* plus one; url, method, symbol, interval and endTime are those of the
\* first request in every request.
C3_Pagination ==
    /\ \A k \in 1..(Len(hk_pages) - 1) : hk_pages[k] # <<>>
    /\ GotEmptyPage => (Len(hk_calls) = Len(hk_pages) /\ hk_pc \in {"done", "panicked"})
    /\ hk_pc = "done" => GotEmptyPage
    /\ hk_pc = "call" => (Len(hk_calls) = Len(hk_pages) /\ ~GotEmptyPage)
    /\ Len(hk_calls) \in {Len(hk_pages), Len(hk_pages) + 1}
    /\ \A k \in 1..(Len(hk_calls) - 1) :
          LET page == hk_pages[k]
          IN  hk_calls[k + 1].params["startTime"] = IntToStr(page[Len(page)][1] + 1)
    /\ \A k \in 1..Len(hk_calls) :
          /\ hk_calls[k].url = hk_calls[1].url
          /\ hk_calls[k].method = "GET"
          /\ DOMAIN hk_calls[k].params =
                 {"symbol", "interval", "startTime"}
                    \cup (IF hk_args.end_time_utc = "" THEN {} ELSE {"endTime"})
          /\ hk_calls[k].params["symbol"] = hk_args.symbol
          /\ hk_calls[k].params["interval"] = hk_args.interval
          /\ hk_args.end_time_utc # "" =>
                 hk_calls[k].params["endTime"] = hk_calls[1].params["endTime"]

C3_Witness ==
    /\ hk_pc = "done" /\ Len(hk_calls) = 3 /\ Len(hk_pages) = 3
    /\ hk_args.end_time_utc # ""
    /\ hk_calls[2].params["startTime"] = "120001"
    /\ hk_calls[3].params["startTime"] = "60001"

\* C4: after at least one non-empty page and then the empty page,
\* history_klines returns the records of the pages in the order received,
\* without the last of them.
C4_DropsLastRecord ==
    /\ (GotEmptyPage /\ Len(hk_pages) >= 2) => hk_pc = "done"
    /\ hk_pc = "done" =>
          LET all == Flatten(hk_pages)
          IN  /\ hk_result.kind = "ok"
              /\ Len(hk_result.records) = Len(all) - 1
              /\ \A i \in 1..(Len(all) - 1) : hk_result.records[i] = all[i]

C4_Witness ==
    /\ hk_pc = "done" /\ Len(hk_pages) = 3
    /\ Len(hk_result.records) = 2

\* The lower-case text of the symbols the model subscribes to.
Lowered(symbol) == IF symbol = BTCUSDT THEN "btcusdt" ELSE "ethusdt"

\* The entries of the params list for the symbols, the last one last.
RECURSIVE ExpectedParams(_, _)
ExpectedParams(symbols, sub_type) ==
    LET n == Len(symbols)
        entry == "\"" \o Lowered(symbols[n]) \o "@" \o sub_type \o "\""
    IN  IF n = 0 THEN ""
        ELSE IF n = 1 THEN entry
        ELSE ExpectedParams(SubSeq(symbols, 1, n - 1), sub_type) \o "," \o entry

ExpectedText(method, symbols, sub_type) ==
    IF method = "subscribe"
    THEN "{\"method\": \"SUBSCRIBE\", \"params\": [" \o ExpectedParams(symbols, sub_type)
             \o "], \"id\": 1}"
    ELSE "{\"method\": \"UNSUBSCRIBE\", \"params\": [" \o ExpectedParams(symbols, sub_type)
             \o "], \"id\": 312}"

\* C8: a subscribe or unsubscribe call that succeeds appends exactly one text
\* frame to the websocket: method SUBSCRIBE and id 1, or method UNSUBSCRIBE
\* and id 312, and as params one "<lower-case symbol>@<sub_type>" for each
\* symbol, in the order of the symbols; a call that fails appends none; no
\* call changes a field of the client.
C8_FrameStep ==
    (ws_out' # ws_out \/ ws_last' # ws_last) =>
        /\ client_vars' = client_vars
        /\ ws_last'.method \in {"subscribe", "unsubscribe"}
        /\ IF ws_last'.outcome = "ok"
           THEN /\ Len(ws_out') = Len(ws_out) + 1
                /\ SubSeq(ws_out', 1, Len(ws_out)) = ws_out
                /\ ws_out'[Len(ws_out')] =
                       [type |-> "text",
                        data |-> ExpectedText(ws_last'.method, ws_last'.symbols,
                                              ws_last'.sub_type)]
                /\ (/\ ws_last'.method = "subscribe"
                    /\ ws_last'.symbols = <<BTCUSDT, ethusdt>>
                    /\ ws_last'.sub_type = "aggTrade") =>
                       ws_out'[Len(ws_out')].data =
                          "{\"method\": \"SUBSCRIBE\", \"params\": [\"btcusdt@aggTrade\",\"ethusdt@aggTrade\"], \"id\": 1}"
           ELSE ws_out' = ws_out

\* C8: every subscribe and unsubscribe call writes its one frame as above
\* and leaves the client as it was.
C8_ControlFrames == [][C8_FrameStep]_vars

C8_Witness ==
    /\ ws_last = [method |-> "subscribe", symbols |-> <<BTCUSDT, ethusdt>>,
                  sub_type |-> "aggTrade", outcome |-> "ok"]
    /\ ws_out = <<[type |-> "text",
                   data |-> "{\"method\": \"SUBSCRIBE\", \"params\": [\"btcusdt@aggTrade\",\"ethusdt@aggTrade\"], \"id\": 1}"]>>

\* C9: a request of history_klines that fails in the transport ends it: it
\* returns the error and no records, and makes no request afterwards.
C9_ErrorState ==
    /\ (hk_pc # "idle" /\ last_response.kind = "transport_error") =>
          /\ hk_pc = "err"
          /\ hk_result = [kind |-> "err", records |-> <<>>]
          /\ Len(hk_calls) = Len(hk_pages) + 1
    /\ hk_pc = "err" => last_response.kind = "transport_error"

\* C9: a transport failure ends history_klines with the error and no
\* records, and no request follows it.
C9_TransportErrorAborts ==
    [](C9_ErrorState)
    /\ [][hk_pc = "err" => (hk_pc' = "err" /\ hk_calls' = hk_calls /\ n_dispatch' = n_dispatch
                              /\ hk_result' = hk_result)]_vars

C9_Witness ==
    /\ hk_pc = "err" /\ Len(hk_pages) = 2 /\ Len(hk_calls) = 3
    /\ kline_data # <<>>

SignedOps == {"new_order", "cancel_order", "pull_account", "get_position", "get_balance"}

\* key=value of each pair, joined by "&".
RECURSIVE JoinPairs(_)
JoinPairs(pairs) ==
    IF pairs = <<>> THEN <<>>
    ELSE IF Len(pairs) = 1 THEN <<pairs[1][1], "=", pairs[1][2]>>
    ELSE <<pairs[1][1], "=", pairs[1][2], "&">> \o JoinPairs(Tail(pairs))

\* C6: the request of a signed operation carries a timestamp field, and
\* its last query field is the signature, computed under the secret key
\* over all the fields before it, in the order in which they are sent.
C6_SignedDispatch ==
    (last_op \in SignedOps /\ last_result.sent) =>
        LET q == last_request.query
            n == Len(q)
            signed == SubSeq(q, 1, n - 1)
        IN  /\ n >= 2
            /\ q[n][1] = "signature"
            /\ Cardinality({i \in 1..(n - 1) : q[i][1] = "timestamp"}) = 1
            /\ \A i \in 1..(n - 1) : q[i][1] # "signature"
            /\ \A i, j \in 1..(n - 1) : q[i][1] = q[j][1] => i = j
            /\ q[n][2] = HexHmacSha256(secret_key, JoinPairs(signed))

C6_Witness ==
    /\ last_op = "new_order" /\ last_result.sent
    /\ Len(last_request.query) = 8
    /\ last_request.query[2][1] = "timestamp"
    /\ last_request.query[8][1] = "signature"

\* C7: on a constructed client the resolver returns the base URL of the
\* account type followed by the path of the account type, for every pair of
\* paths; an account type other than spot and swap ends in a panic with no
\* URL produced; and base_url, once set, does not change.
C7_ResolveState ==
    /\ pc = "ready" =>
          /\ account_type \in {"spot", "swap"}
          /\ base_url = (IF account_type = "spot" THEN SpotBase ELSE SwapBase)
          /\ \A a \in {"/a", "/api/v3/exchangeInfo"}, b \in {"/b", "/fapi/v1/exchangeInfo"} :
                generate_exchange_url(Self, <<a, b>>) =
                    IF account_type = "spot" THEN SpotBase \o a ELSE SwapBase \o b
          /\ (last_op = "get_exchange_info" /\ last_result.sent) =>
                last_request.url =
                    IF account_type = "spot" THEN SpotBase \o "/api/v3/exchangeInfo"
                    ELSE SwapBase \o "/fapi/v1/exchangeInfo"
    /\ (pc # "start" /\ account_type \notin {"spot", "swap"}) =>
          /\ pc = "panicked"
          /\ base_url = ""
          /\ n_dispatch = 0
          /\ last_request = NoRequest
          /\ generate_exchange_url(Self, <<"/a", "/b">>) = PANIC

\* C7: the resolver returns base URL and path of the account type in every
\* state, and base_url never changes once the client is constructed.
C7_Resolve ==
    [](C7_ResolveState) /\ [][pc # "start" => base_url' = base_url]_vars

C7_Witness ==
    /\ pc = "ready" /\ account_type = "swap"
    /\ last_op = "get_exchange_info" /\ last_result.sent
    /\ last_request.url = "https://fapi.binance.com/fapi/v1/exchangeInfo"

\* C10: a call of get_position or get_balance on a spot client panics and
\* hands no request to the transport; on a swap client it hands exactly one
\* request to the transport, a signed GET.
C10_PositionBalanceStep ==
    (n_calls' = n_calls + 1 /\ last_op' \in {"get_position", "get_balance"}) =>
        IF account_type = "swap"
        THEN /\ n_dispatch' = n_dispatch + 1
             /\ last_request'.method = "GET"
             /\ IsSigned(last_request')
             /\ last_request'.url =
                    IF last_op' = "get_position" THEN SwapBase \o "/fapi/v2/positionRisk"
                    ELSE SwapBase \o "/fapi/v2/balance"
        ELSE /\ account_type = "spot"
             /\ pc' = "panicked"
             /\ n_dispatch' = n_dispatch
             /\ last_request' = last_request

\* C10: every call of get_position and get_balance panics without a request
\* on spot and makes exactly one signed GET on swap.
C10_PositionBalanceSwapOnly == [][C10_PositionBalanceStep]_vars

C10_Witness ==
    /\ account_type = "spot" /\ last_op = "get_balance"
    /\ pc = "panicked" /\ ~last_result.sent

====
